---------------------------- MODULE Spec2Model ----------------------------
(***************************************************************************)
(* A model of src/mapillary_api.py: the metadata query client              *)
(* (get_mapillary_images_metadata), the record projector                   *)
(* (mapillary_data_to_gdf), the spatial filter                             *)
(* (filter_metadata_with_polygon) and the tiled orchestrator               *)
(* (tiled_mapillary_data_to_gdf).                                          *)
(*                                                                         *)
(* Coordinates are whole degrees.  A polygon is a finite set of closed     *)
(* axis-aligned rectangles <<west, south, east, north>> whose union is the *)
(* region (a rectilinear polygon); shapely's predicates are computed on    *)
(* that union.  Python None is the string NoneVal.                         *)
(***************************************************************************)
EXTENDS Integers, Sequences, FiniteSets, TLC

(***************************************************************************)
(* Bounds of the model.                                                    *)
(***************************************************************************)
\* longest "data" list of a response handed to the projector, the filter
\* and the single query client
MaxRecs == 3
\* longest "data" list the API returns for one tile of a tiled run
MaxTileRecs == 1
\* most rows of a table handed to download_all_pictures_from_gdf
MaxRows == 3

(***************************************************************************)
(* Program constants.                                                      *)
(***************************************************************************)
\* def get_mapillary_images_metadata(..., limit=5000)
DefaultLimit == 5000
\* the longitude and latitude limits of the input validation
LonLimit == 180
LatLimit == 90

NoneVal == "<None>"

(***************************************************************************)
(* Python values handed in as coordinates or as limit: an int/float number,*)
(* a float NaN, or a value of another type.                                *)
(***************************************************************************)
Num(n) == [t |-> "num", v |-> n]
NaN == [t |-> "nan", v |-> 0]
Str == [t |-> "str", v |-> 0]
\* a float with a whole value, such as 2.0: a number, but no int
Flt(n) == [t |-> "float", v |-> n]

(***************************************************************************)
(* Geometry: shapely on whole-degree rectilinear regions.                  *)
(***************************************************************************)
W(r) == r[1]
S(r) == r[2]
E(r) == r[3]
N(r) == r[4]

\* shapely.box(minx, miny, maxx, maxy)
box(minx, miny, maxx, maxy) == <<minx, miny, maxx, maxy>>

SetMin(s) == CHOOSE x \in s : \A y \in s : x <= y
SetMax(s) == CHOOSE x \in s : \A y \in s : x >= y

\* polygon.bounds: (minx, miny, maxx, maxy)
bounds(poly) ==
    << SetMin({W(r) : r \in poly}), SetMin({S(r) : r \in poly}),
       SetMax({E(r) : r \in poly}), SetMax({N(r) : r \in poly}) >>

\* two closed rectangles share a point
RectsMeet(a, b) == W(a) <= E(b) /\ W(b) <= E(a) /\ S(a) <= N(b) /\ S(b) <= N(a)

\* geom.disjoint(polygon): no point in common, boundaries included
disjoint(rect, poly) == \A r \in poly : ~RectsMeet(rect, r)

\* geom.intersects(polygon) for a point: interior or boundary
intersects(pt, poly) ==
    \E r \in poly : W(r) <= pt[1] /\ pt[1] <= E(r) /\ S(r) <= pt[2] /\ pt[2] <= N(r)

\* polygon.contains(point): the point is in the interior of the region, i.e.
\* each of the four quadrants around it is covered near the point
contains(poly, pt) ==
    /\ \E r \in poly : W(r) <= pt[1] /\ pt[1] < E(r) /\ S(r) <= pt[2] /\ pt[2] < N(r)
    /\ \E r \in poly : W(r) < pt[1] /\ pt[1] <= E(r) /\ S(r) <= pt[2] /\ pt[2] < N(r)
    /\ \E r \in poly : W(r) <= pt[1] /\ pt[1] < E(r) /\ S(r) < pt[2] /\ pt[2] <= N(r)
    /\ \E r \in poly : W(r) < pt[1] /\ pt[1] <= E(r) /\ S(r) < pt[2] /\ pt[2] <= N(r)

(***************************************************************************)
(* Raw API records: an id and a "geometry" field.  g = "point" is a        *)
(* well-formed {"coordinates": [x, y]}; "absent" is a record without the   *)
(* geometry key; "nocoords" a geometry mapping without "coordinates".      *)
(***************************************************************************)
Rec(i, g, x, y) == [id |-> i, g |-> g, x |-> x, y |-> y]

Records ==
    { Rec(1, "point", -45, 20), Rec(2, "point", -30, 20),
      Rec(3, "point", 20, 70), Rec(4, "absent", 0, 0), Rec(5, "nocoords", 0, 0) }

RECURSIVE SeqsUpTo(_, _)
SeqsUpTo(set, n) ==
    IF n = 0 THEN { <<>> }
    ELSE LET shorter == SeqsUpTo(set, n - 1)
         IN  shorter \cup { Append(s, x) : s \in { q \in shorter : Len(q) = n - 1 }, x \in set }

\* a decoded response body: a JSON object with or without the "data" key
Body(hasData, data) == [hasData |-> hasData, data |-> data]
NoBody == Body(FALSE, <<>>)

\* as_dict.get("data") / data.get("data") used as a condition
DataTruthy(body) == body.hasData /\ body.data # <<>>

\* get_coordinates_as_point(inputdict): Point(inputdict["coordinates"]);
\* raises for a record whose geometry is NaN (absent) or has no coordinates
get_coordinates_as_point(rec) ==
    IF rec.g = "point" THEN [ok |-> TRUE, pt |-> <<rec.x, rec.y>>]
    ELSE [ok |-> FALSE, pt |-> <<0, 0>>]


(***************************************************************************)
(* The metadata query client, get_mapillary_images_metadata.  An argument  *)
(* record a holds the call's parameters; the blocking requests.get splits  *)
(* the function in the part before the request and the part after it.      *)
(***************************************************************************)
Args(minLon, minLat, maxLon, maxLat, fields, tok, outpath, limit) ==
    [minLon |-> minLon, minLat |-> minLat, maxLon |-> maxLon, maxLat |-> maxLat,
     fields |-> fields, token |-> tok, outpath |-> outpath, limit |-> limit]

\* isinstance(coord, (int, float))
IsNumber(c) == c.t \in {"num", "float", "nan"}

\* -lim <= c <= lim in Python: False for a NaN
InRange(c, lim) == c.t \in {"num", "float"} /\ (0 - lim) <= c.v /\ c.v <= lim

\* isinstance(limit, int) and limit > 0
ValidLimit(l) == l.t = "num" /\ l.v > 0

\* the validation without its token check
ValidTokenUnchecked(tok) == TRUE

\* "not token" is False: the token is neither None nor empty
ValidToken(tok) == tok # NoneVal /\ tok # ""

\* the input validation, in the order of the code
ValidInputs(a) ==
    /\ \A c \in {a.minLon, a.minLat, a.maxLon, a.maxLat} : IsNumber(c)
    /\ InRange(a.minLon, LonLimit) /\ InRange(a.maxLon, LonLimit)
    /\ InRange(a.minLat, LatLimit) /\ InRange(a.maxLat, LatLimit)
    /\ ~(a.minLon.v >= a.maxLon.v \/ a.minLat.v >= a.maxLat.v)
    /\ ValidLimit(a.limit)
    /\ ValidToken(a.token)

\* what happens before requests.get: a ValueError of the validation, a
\* TypeError of ",".join(fields) when fields is None, or the request ("ok")
BeforeRequest(a) ==
    IF ~ValidInputs(a) THEN "ValueError"
    ELSE IF a.fields = NoneVal THEN "TypeError"
    ELSE "ok"

\* the bbox parameter of the request: f"{minLon},{minLat},{maxLon},{maxLat}"
BboxParam(a) == <<a.minLon.v, a.minLat.v, a.maxLon.v, a.maxLat.v>>

\* the HTTP outcome the environment supplies: a transport failure or bad
\* status ("neterr"), a body that is no JSON ("notjson"), a JSON object with
\* an "error" key ("error"), a JSON value that is no object, such as a list
\* ("nonobject"), or a JSON object without an "error" key ("ok")
Resp(kind, body) == [kind |-> kind, body |-> body]

\* a warning for every response of at least limit records
TruncationWarningAtLeast(body, limit) == DataTruthy(body) /\ Len(body.data) >= limit.v

\* the truncation warning: as_dict.get("data") and len(as_dict["data"]) == limit
TruncationWarning(body, limit) == DataTruthy(body) /\ Len(body.data) = limit.v

Outcome(outcome, warned, result) ==
    [outcome |-> outcome, warned |-> warned, result |-> result]

\* what happens after requests.get returned or raised: a RequestException, a
\* ValueError for a body that is no JSON or holds an error payload, the
\* AttributeError of as_dict.get for a JSON value that is no object, the
\* warning, the IOError of dump_json, or the decoded response.  dumpFails is
\* whether dump_json raises when outpath is given
AfterRequest(a, resp, dumpFails) ==
    IF resp.kind = "neterr" THEN Outcome("RequestException", FALSE, NoBody)
    ELSE IF resp.kind = "notjson" THEN Outcome("ValueError", FALSE, NoBody)
    ELSE IF resp.kind = "error" THEN Outcome("ValueError", FALSE, NoBody)
    ELSE IF resp.kind = "nonobject" THEN Outcome("AttributeError", FALSE, NoBody)
    ELSE LET warned == TruncationWarning(resp.body, a.limit)
         IN  IF a.outpath # NoneVal /\ dumpFails
             THEN Outcome("IOError", warned, NoBody)
             ELSE Outcome("ok", warned, resp.body)

(***************************************************************************)
(* State.                                                                  *)
(***************************************************************************)
VARIABLES
    http,       \* the bbox of every HTTP request issued, in order
    inflight,   \* the bboxes of the requests not yet answered
    q,          \* query client: the arguments of the call
    q_pc,       \* query client: "idle", "wait" (in requests.get), "done"
    q_resp,     \* query client: the HTTP outcome received
    q_dump,     \* query client: whether dump_json fails for this call
    q_out,      \* query client: the Outcome of the call
    p_data,     \* projector: the response handed in
    p_poly,     \* projector: the filtering polygon ({} when none is given)
    p_pc,       \* projector: "idle" or "done"
    p_out,      \* projector: the rows of the returned GeoDataFrame
    f_data,     \* filter: the response handed in
    f_poly,     \* filter: the polygon
    f_pc,       \* filter: "idle", "once" (filtered), "twice" (filtered again)
    f_out,      \* filter: the returned response
    f_out2,     \* filter: the response returned for f_out
    MAPPILARY_TOKEN, \* the module-level token found at import time
    input_polygon,   \* tiled run: the region
    token,      \* tiled run: the token argument
    zoom,       \* tiled run: the zoom argument
    bboxes,     \* tiled run: the tile bounds <<west, south, east, north>>
    t_i,        \* tiled run: the index in bboxes of the tile of the loop
    gdfs_list,  \* tiled run: the per-tile GeoDataFrames collected
    t_pc,       \* tiled run: "start", "loop", "wait", "returned", "raised"
    t_err,      \* tiled run: the exception raised ("none" when none)
    as_gdf,     \* tiled run: the rows of the GeoDataFrame returned
    calls,      \* tiled run: the calls of the query client, in order
    resps,      \* tiled run: the HTTP outcomes of the requests, in order
    gdf,        \* download: the table, [hasId, hasUrl, rows]
    d_i,        \* download: the index of the row of the loop
    d_pc,       \* download: "idle", "loop", "returned", "raised"
    d_err,      \* download: the exception raised ("none" when none)
    success_count, \* download: the local success_count
    failed_count,  \* download: the local failed_count
    errors,     \* download: the local errors, one entry per message
    d_log,      \* download: what happened to each row processed, in order
    d_ret       \* download: the summary returned

queryVars == <<q, q_pc, q_resp, q_dump, q_out>>
netVars == <<http, inflight>>
projVars == <<p_data, p_poly, p_pc, p_out>>
filterVars == <<f_data, f_poly, f_pc, f_out, f_out2>>
tiledVars == <<MAPPILARY_TOKEN, input_polygon, token, zoom, bboxes, t_i, gdfs_list,
               t_pc, t_err, as_gdf, calls, resps>>
downloadVars == <<gdf, d_i, d_pc, d_err, success_count, failed_count, errors,
                  d_log, d_ret>>
vars == <<netVars, queryVars, projVars, filterVars, tiledVars, downloadVars>>

(***************************************************************************)
(* The inputs of a direct call of the query client.                        *)
(***************************************************************************)
CoordVals == {Num(-200), Num(-100), Num(0), Num(50), NaN, Str}
LimitVals == {Num(n) : n \in -1 .. MaxRecs + 1} \cup {Flt(2), Str}
TokenVals == {"tok", "", NoneVal}
FieldsVals == {"default_fields", NoneVal}
OutpathVals == {NoneVal, "out.json"}

Bodies(n) == {Body(TRUE, d) : d \in SeqsUpTo(Records, n)} \cup {NoBody}
Responses(n) ==
    {Resp(k, NoBody) : k \in {"neterr", "notjson", "error", "nonobject"}}
        \cup {Resp("ok", b) : b \in Bodies(n)}

NoArgs == Args(Num(0), Num(0), Num(0), Num(0), NoneVal, NoneVal, NoneVal, Num(0))
NoResp == Resp("none", NoBody)
NoOutcome == Outcome("none", FALSE, NoBody)

QueryIdle ==
    /\ q = NoArgs /\ q_pc = "idle" /\ q_resp = NoResp /\ q_dump = FALSE
    /\ q_out = NoOutcome

\* get_mapillary_images_metadata up to and including the call of requests.get
QueryCall ==
    /\ q_pc = "idle"
    /\ \E minLon \in CoordVals, minLat \in CoordVals, maxLon \in CoordVals,
          maxLat \in CoordVals, fields \in FieldsVals, tok \in TokenVals,
          outpath \in OutpathVals, limit \in LimitVals :
          LET a == Args(minLon, minLat, maxLon, maxLat, fields, tok, outpath, limit)
              pre == BeforeRequest(a)
          IN  /\ q' = a
              /\ IF pre = "ok"
                 THEN /\ http' = Append(http, BboxParam(a))
                      /\ inflight' = Append(inflight, BboxParam(a))
                      /\ q_pc' = "wait"
                      /\ q_out' = q_out
                 ELSE /\ q_pc' = "done"
                      /\ q_out' = Outcome(pre, FALSE, NoBody)
                      /\ UNCHANGED netVars
    /\ UNCHANGED <<q_resp, q_dump>>

\* requests.get returns or raises, and the function runs to its end
QueryRespond ==
    /\ q_pc = "wait"
    /\ \E resp \in Responses(MaxRecs), dumpFails \in BOOLEAN :
          /\ q_resp' = resp
          /\ q_dump' = (resp.kind = "ok" /\ q.outpath # NoneVal /\ dumpFails)
          /\ q_out' = AfterRequest(q, resp, dumpFails)
    /\ inflight' = Tail(inflight)
    /\ q_pc' = "done"
    /\ UNCHANGED <<q, http>>


(***************************************************************************)
(* The regions of the model.  With the tiles of zoom 2 (longitude edges    *)
(* -180, -90, 0, 90, 180; latitude edges 85, 67, 0, -67, -85):             *)
(*   PolyOne   lies inside one tile;                                       *)
(*   PolyL     is an L over a block of 2 x 2 tiles, disjoint from one;     *)
(*   PolyTouch is an L over the same block that meets the fourth tile      *)
(*             only along the tile's western edge;                         *)
(*   PolyEast, PolyWest span two tiles of one row.                         *)
(***************************************************************************)
PolyOne == { <<-60, 10, -30, 40>> }
PolyL == { <<-60, -40, -30, 40>>, <<-60, -40, 30, -20>> }
PolyTouch == { <<-60, -40, 0, 40>>, <<-60, -40, 30, -20>> }
PolyEast == { <<60, 10, 120, 40>> }
PolyWest == { <<-120, 10, -60, 40>> }
Polygons == {PolyOne, PolyL, PolyTouch, PolyEast, PolyWest}

(***************************************************************************)
(* The record projector, mapillary_data_to_gdf(data, outpath,              *)
(* filtering_polygon), for a dict data: the rows of the GeoDataFrame it    *)
(* returns.  Any exception of the conversion (a missing geometry column, a *)
(* record get_coordinates_as_point raises for) is caught and an empty      *)
(* GeoDataFrame returned; a failing to_file is caught too, so outpath does *)
(* not change what is returned.                                            *)
(***************************************************************************)
mapillary_data_to_gdf(data, filtering_polygon) ==
    IF ~DataTruthy(data) THEN <<>>
    ELSE IF \E k \in 1 .. Len(data.data) : ~get_coordinates_as_point(data.data[k]).ok
         THEN <<>>
    ELSE IF filtering_polygon # {}
         THEN SelectSeq(data.data,
                  LAMBDA rec : intersects(get_coordinates_as_point(rec).pt, filtering_polygon))
    ELSE data.data

(***************************************************************************)
(* The spatial filter, filter_metadata_with_polygon(data, polygon).        *)
(***************************************************************************)
\* the loop with intersects in place of contains: boundary points are kept
KeepsItemIntersecting(item, polygon) ==
    /\ get_coordinates_as_point(item).ok
    /\ intersects(get_coordinates_as_point(item).pt, polygon)

\* the body of the loop: the item is kept; a malformed item is skipped
KeepsItem(item, polygon) ==
    /\ get_coordinates_as_point(item).ok
    /\ contains(polygon, get_coordinates_as_point(item).pt)

filter_metadata_with_polygon(data, polygon) ==
    IF ~DataTruthy(data) THEN data
    ELSE Body(data.hasData, SelectSeq(data.data, LAMBDA item : KeepsItem(item, polygon)))

(***************************************************************************)
(* Direct calls of the projector and of the filter.                        *)
(***************************************************************************)
ProjectIdle ==
    /\ p_pc = "idle" /\ p_out = <<>>
    /\ p_data \in Bodies(MaxRecs)
    /\ p_poly \in Polygons \cup { {} }

FilterIdle ==
    /\ f_pc = "idle" /\ f_out = NoBody /\ f_out2 = NoBody
    /\ f_data \in Bodies(MaxRecs)
    /\ f_poly \in Polygons

Project ==
    /\ p_pc = "idle"
    /\ p_out' = mapillary_data_to_gdf(p_data, p_poly)
    /\ p_pc' = "done"
    /\ UNCHANGED <<p_data, p_poly>>

Filter ==
    /\ f_pc = "idle"
    /\ f_out' = filter_metadata_with_polygon(f_data, f_poly)
    /\ f_pc' = "once"
    /\ UNCHANGED <<f_data, f_poly, f_out2>>

\* the filter applied to what it returned
FilterAgain ==
    /\ f_pc = "once"
    /\ f_out2' = filter_metadata_with_polygon(f_out, f_poly)
    /\ f_pc' = "twice"
    /\ UNCHANGED <<f_data, f_poly, f_out>>


(***************************************************************************)
(* The tile grid, tilebboxes_from_bbox: mercantile.bounds of every tile of *)
(* mercantile.tiles(minlon, minlat, maxlon, maxlat, zoom).  Tile edges are *)
(* rounded to whole degrees (the Mercator latitudes 85.05 and 66.51 are 85 *)
(* and 67).                                                                *)
(***************************************************************************)
Pow2(z) == IF z = 1 THEN 2 ELSE 4

\* the western edge of column x (the eastern edge of column x - 1)
LonEdge(x, z) == (0 - 180) + (360 * x) \div Pow2(z)

\* the northern edge of row y (the southern edge of row y - 1)
LatEdge(y, z) == IF z = 1 THEN <<85, 0, -85>>[y + 1] ELSE <<85, 67, 0, -67, -85>>[y + 1]

\* mercantile.tile(lng, lat, zoom).x for lng, and for lng - LL_EPSILON
TileX(lng, z) == SetMax({0} \cup {x \in 0 .. Pow2(z) - 1 : LonEdge(x, z) <= lng})
TileXBelow(lng, z) == SetMax({0} \cup {x \in 0 .. Pow2(z) - 1 : LonEdge(x, z) < lng})

\* mercantile.tile(lng, lat, zoom).y for lat, and for lat + LL_EPSILON
TileY(lat, z) == SetMax({0} \cup {y \in 0 .. Pow2(z) - 1 : LatEdge(y, z) >= lat})
TileYAbove(lat, z) == SetMax({0} \cup {y \in 0 .. Pow2(z) - 1 : LatEdge(y, z) > lat})

\* mercantile.bounds(tile): LngLatBbox(west, south, east, north)
TileBounds(x, y, z) ==
    <<LonEdge(x, z), LatEdge(y + 1, z), LonEdge(x + 1, z), LatEdge(y, z)>>

Max(a, b) == IF a >= b THEN a ELSE b
Min(a, b) == IF a <= b THEN a ELSE b

\* the tiles in the order mercantile.tiles yields them: column by column from
\* the west, and within a column row by row from the north
tilebboxes_from_bbox(minlat, minlon, maxlat, maxlon, z) ==
    LET w == Max(0 - 180, minlon)
        s == Max(0 - 85, minlat)
        e == Min(180, maxlon)
        n == Min(85, maxlat)
        x0 == TileX(w, z)
        y0 == TileY(n, z)
        x1 == TileXBelow(e, z)
        y1 == TileYAbove(s, z)
        rows == y1 - y0 + 1
        count == (x1 - x0 + 1) * rows
    IN  IF x1 < x0 \/ y1 < y0 THEN <<>>
        ELSE [k \in 1 .. count |->
                 TileBounds(x0 + ((k - 1) \div rows), y0 + ((k - 1) % rows), z)]

\* tile_bbox_to_box with swap_latlon=True: the box in (lat, lon) order
tile_bbox_to_box_swapped(tile_bbox) ==
    box(tile_bbox[2], tile_bbox[1], tile_bbox[4], tile_bbox[3])

\* tile_bbox_to_box(tile_bbox) with swap_latlon=False
tile_bbox_to_box(tile_bbox) ==
    box(tile_bbox[1], tile_bbox[2], tile_bbox[3], tile_bbox[4])

\* resort_bbox(bbox): [bbox[1], bbox[0], bbox[3], bbox[2]], Python indices
resort_bbox(bbox) == <<bbox[2], bbox[1], bbox[4], bbox[3]>>

\* get_mapillary_images_metadata(*resort_bbox(bbox), token): the four numbers
\* fill minLon, minLat, maxLon, maxLat and the token is the fifth positional
\* parameter, fields; the token parameter keeps its default MAPPILARY_TOKEN
TileArgs(bbox, tok, moduleToken) ==
    LET r == resort_bbox(bbox)
    IN  Args(Num(r[1]), Num(r[2]), Num(r[3]), Num(r[4]), tok, moduleToken,
             NoneVal, Num(DefaultLimit))

\* pd.concat(gdfs_list) for a list that is not empty
RECURSIVE concat(_)
concat(list) == IF list = <<>> THEN <<>> ELSE Head(list) \o concat(Tail(list))

(***************************************************************************)
(* A run of tiled_mapillary_data_to_gdf(input_polygon, token, zoom), with  *)
(* outpath left at None.                                                   *)
(***************************************************************************)
TileRecords ==
    { Rec(1, "point", -45, 20), Rec(2, "point", -30, 20),
      Rec(3, "point", 20, 70), Rec(4, "absent", 0, 0) }

TileResponses ==
    {Resp(k, NoBody) : k \in {"neterr", "notjson", "error", "nonobject"}}
        \cup {Resp("ok", Body(TRUE, d)) : d \in SeqsUpTo(TileRecords, MaxTileRecs)}
        \cup {Resp("ok", NoBody)}

TiledIdle ==
    /\ MAPPILARY_TOKEN \in {"tok", ""}
    /\ input_polygon \in Polygons
    /\ token \in {"tok", NoneVal}
    /\ zoom \in {1, 2}
    /\ bboxes = <<>> /\ t_i = 0 /\ gdfs_list = <<>> /\ t_pc = "start"
    /\ t_err = "none" /\ as_gdf = <<>> /\ calls = <<>> /\ resps = <<>>

\* lines 459-465: the bounds of the region and the tile grid
TiledStart ==
    /\ t_pc = "start"
    /\ LET b == bounds(input_polygon)
       IN  bboxes' = tilebboxes_from_bbox(b[2], b[1], b[4], b[3], zoom)
    /\ t_i' = 1
    /\ t_pc' = "loop"
    /\ UNCHANGED <<MAPPILARY_TOKEN, input_polygon, token, zoom, gdfs_list, t_err,
                   as_gdf, calls, resps, netVars>>

\* a loop that catches the exception of a tile's query and goes on
OnQueryErrorContinue == "loop"

\* where the run goes when the call of the query client raises: the call is
\* in no try block, so the exception leaves tiled_mapillary_data_to_gdf
OnQueryError == "raised"

\* the tile of the loop is one the condition of line 474 lets through
Queried(bbox, polygon) == ~disjoint(tile_bbox_to_box(bbox), polygon)

\* one pass of the loop for a tile that is disjoint from the region
TileSkip ==
    /\ t_pc = "loop" /\ t_i <= Len(bboxes)
    /\ ~Queried(bboxes[t_i], input_polygon)
    /\ t_i' = t_i + 1
    /\ UNCHANGED <<MAPPILARY_TOKEN, input_polygon, token, zoom, bboxes, gdfs_list,
                   t_pc, t_err, as_gdf, calls, resps, netVars>>

\* one pass of the loop for another tile, up to requests.get: the call of the
\* query client raises before the request, or issues it and blocks
TileQuery ==
    /\ t_pc = "loop" /\ t_i <= Len(bboxes)
    /\ Queried(bboxes[t_i], input_polygon)
    /\ LET a == TileArgs(bboxes[t_i], token, MAPPILARY_TOKEN)
           pre == BeforeRequest(a)
       IN  /\ calls' = Append(calls, [tile |-> t_i, args |-> a])
           /\ IF pre = "ok"
              THEN /\ http' = Append(http, BboxParam(a))
                   /\ inflight' = Append(inflight, BboxParam(a))
                   /\ t_pc' = "wait"
                   /\ t_err' = t_err
              ELSE /\ t_pc' = OnQueryError
                   /\ t_err' = pre
                   /\ UNCHANGED netVars
    /\ UNCHANGED <<MAPPILARY_TOKEN, input_polygon, token, zoom, bboxes, t_i,
                   gdfs_list, as_gdf, resps>>

\* a pass that appends the tile's GeoDataFrame twice
CollectedTwice(list, data, polygon) ==
    IF DataTruthy(data)
    THEN Append(Append(list, mapillary_data_to_gdf(data, polygon)),
                mapillary_data_to_gdf(data, polygon))
    ELSE list

\* what one pass appends to gdfs_list for the response the query returned
Collected(list, data, polygon) ==
    IF DataTruthy(data) THEN Append(list, mapillary_data_to_gdf(data, polygon))
    ELSE list

\* requests.get returns or raises: the rest of the query client and of the
\* pass of the loop
TileRespond ==
    /\ t_pc = "wait"
    /\ \E resp \in TileResponses :
          LET a == calls[Len(calls)].args
              out == AfterRequest(a, resp, FALSE)
          IN  /\ resps' = Append(resps, resp)
              /\ IF out.outcome = "ok"
                 THEN /\ gdfs_list' = Collected(gdfs_list, out.result, input_polygon)
                      /\ t_i' = t_i + 1
                      /\ t_pc' = "loop"
                      /\ t_err' = t_err
                 ELSE /\ t_pc' = OnQueryError
                      /\ t_err' = out.outcome
                      /\ UNCHANGED <<gdfs_list, t_i>>
    /\ inflight' = Tail(inflight)
    /\ UNCHANGED <<MAPPILARY_TOKEN, input_polygon, token, zoom, bboxes, as_gdf,
                   calls, http>>

\* lines 485-490 after the loop: pd.concat raises ValueError ("No objects to
\* concatenate") for an empty list
TiledConcat ==
    /\ t_pc = "loop" /\ t_i > Len(bboxes)
    /\ IF gdfs_list = <<>>
       THEN /\ t_pc' = "raised"
            /\ t_err' = "ValueError"
            /\ as_gdf' = as_gdf
       ELSE /\ t_pc' = "returned"
            /\ as_gdf' = concat(gdfs_list)
            /\ t_err' = t_err
    /\ UNCHANGED <<MAPPILARY_TOKEN, input_polygon, token, zoom, bboxes, t_i,
                   gdfs_list, calls, resps, netVars>>

(***************************************************************************)
(* download_all_pictures_from_gdf(gdf, outfolderpath) with the default     *)
(* id_field and url_field.  The table is its rows, each an id and a URL    *)
(* ("" and None are the empty URLs), and whether it has the two columns.   *)
(***************************************************************************)
Row(id, url) == [id |-> id, url |-> url]
UrlVals == {"u", "", NoneVal}

Tables ==
    { [hasId |-> hi, hasUrl |-> hu, rows |-> [k \in 1 .. n |-> Row(k, urls[k])]] :
        hi \in BOOLEAN, hu \in BOOLEAN,
        n \in 0 .. MaxRows, urls \in [1 .. MaxRows -> UrlVals] }

Summary(success, failed, errs) == [success |-> success, failed |-> failed, errors |-> errs]
NoSummary == Summary(0 - 1, 0 - 1, <<>>)

DownloadIdle ==
    /\ gdf \in Tables
    /\ d_i = 0 /\ d_pc = "idle" /\ d_err = "none"
    /\ success_count = 0 /\ failed_count = 0 /\ errors = <<>>
    /\ d_log = <<>> /\ d_ret = NoSummary

DownloadAtRest ==
    /\ gdf = [hasId |-> FALSE, hasUrl |-> FALSE, rows |-> <<>>]
    /\ d_i = 0 /\ d_pc = "off" /\ d_err = "none"
    /\ success_count = 0 /\ failed_count = 0 /\ errors = <<>>
    /\ d_log = <<>> /\ d_ret = NoSummary

\* lines 64-79: the empty table returns at once, a missing column raises
\* ValueError, and os.makedirs of create_dir_if_not_exists may raise OSError
DownloadStart ==
    /\ d_pc = "idle"
    /\ \E mkdirFails \in BOOLEAN :
          IF gdf.rows = <<>>
          THEN /\ d_pc' = "returned" /\ d_ret' = Summary(0, 0, <<>>)
               /\ UNCHANGED <<d_i, d_err>>
          ELSE IF ~gdf.hasId \/ ~gdf.hasUrl
          THEN /\ d_pc' = "raised" /\ d_err' = "ValueError"
               /\ UNCHANGED <<d_i, d_ret>>
          ELSE IF mkdirFails
          THEN /\ d_pc' = "raised" /\ d_err' = "OSError"
               /\ UNCHANGED <<d_i, d_ret>>
          ELSE /\ d_pc' = "loop" /\ d_i' = 1
               /\ UNCHANGED <<d_err, d_ret>>
    /\ UNCHANGED <<gdf, success_count, failed_count, errors, d_log>>

\* "if not image_url"
EmptyUrl(url) == url = "" \/ url = NoneVal

\* download_mapillary_image(url, outfilepath): wget.download raises, and the
\* exception is raised again, or the file is fetched and the cooldown slept
download_mapillary_image(wgetRaises) == IF wgetRaises THEN "raise" ELSE "ok"

\* a loop whose exception of a row leaves the function
OnItemErrorAbort == "raised"

\* where the batch goes when the download of a row raises: the except clause
\* is inside the loop, the failure is recorded and the loop goes on
OnItemError == "loop"

\* one pass of the loop, lines 81-99
DownloadRow ==
    /\ d_pc = "loop" /\ d_i <= Len(gdf.rows)
    /\ \E wgetRaises \in BOOLEAN :
          LET row == gdf.rows[d_i]
          IN  IF EmptyUrl(row.url)
              THEN /\ errors' = Append(errors, [id |-> row.id, what |-> "Empty URL"])
                   /\ failed_count' = failed_count + 1
                   /\ d_log' = Append(d_log, [id |-> row.id, tried |-> FALSE, raised |-> FALSE])
                   /\ d_pc' = d_pc
                   /\ UNCHANGED <<success_count, d_err>>
              ELSE IF download_mapillary_image(wgetRaises) = "ok"
              THEN /\ success_count' = success_count + 1
                   /\ d_log' = Append(d_log, [id |-> row.id, tried |-> TRUE, raised |-> FALSE])
                   /\ d_pc' = d_pc
                   /\ UNCHANGED <<failed_count, errors, d_err>>
              ELSE /\ errors' = Append(errors, [id |-> row.id, what |-> "Failed to download"])
                   /\ failed_count' = failed_count + 1
                   /\ d_log' = Append(d_log, [id |-> row.id, tried |-> TRUE, raised |-> TRUE])
                   /\ d_pc' = OnItemError
                   /\ d_err' = IF OnItemError = "raised" THEN "Exception" ELSE d_err
                   /\ UNCHANGED success_count
    /\ d_i' = d_i + 1
    /\ UNCHANGED <<gdf, d_ret>>

\* lines 101-109: the summary
DownloadReturn ==
    /\ d_pc = "loop" /\ d_i > Len(gdf.rows)
    /\ d_ret' = Summary(success_count, failed_count, errors)
    /\ d_pc' = "returned"
    /\ UNCHANGED <<gdf, d_i, d_err, success_count, failed_count, errors, d_log>>

(***************************************************************************)
(* Specifications: one per operation, each leaving the others idle.        *)
(***************************************************************************)
NetIdle == http = <<>> /\ inflight = <<>>

TiledAtRest ==
    /\ MAPPILARY_TOKEN = "" /\ input_polygon = {} /\ token = NoneVal /\ zoom = 0
    /\ bboxes = <<>> /\ t_i = 0 /\ gdfs_list = <<>> /\ t_pc = "off"
    /\ t_err = "none" /\ as_gdf = <<>> /\ calls = <<>> /\ resps = <<>>

ProjectAtRest == p_pc = "off" /\ p_out = <<>> /\ p_data = NoBody /\ p_poly = {}

FilterAtRest ==
    f_pc = "off" /\ f_out = NoBody /\ f_out2 = NoBody /\ f_data = NoBody /\ f_poly = {}

QueryAtRest ==
    q = NoArgs /\ q_pc = "off" /\ q_resp = NoResp /\ q_dump = FALSE /\ q_out = NoOutcome

InitQuery ==
    NetIdle /\ QueryIdle /\ ProjectAtRest /\ FilterAtRest /\ TiledAtRest /\ DownloadAtRest
NextQuery ==
    \/ QueryCall /\ UNCHANGED <<downloadVars, projVars, filterVars, tiledVars>>
    \/ QueryRespond
          /\ UNCHANGED <<downloadVars, projVars, filterVars, tiledVars>>
SpecQuery == InitQuery /\ [][NextQuery]_vars

InitProject ==
    NetIdle /\ QueryAtRest /\ ProjectIdle /\ FilterAtRest /\ TiledAtRest /\ DownloadAtRest
NextProject ==
    Project /\ UNCHANGED <<downloadVars, netVars, queryVars, filterVars, tiledVars>>
SpecProject == InitProject /\ [][NextProject]_vars

InitFilter ==
    NetIdle /\ QueryAtRest /\ ProjectAtRest /\ FilterIdle /\ TiledAtRest /\ DownloadAtRest
NextFilter ==
    \/ Filter
          /\ UNCHANGED <<downloadVars, netVars, queryVars, projVars, tiledVars>>
    \/ FilterAgain
          /\ UNCHANGED <<downloadVars, netVars, queryVars, projVars, tiledVars>>
SpecFilter == InitFilter /\ [][NextFilter]_vars

InitTiled ==
    NetIdle /\ QueryAtRest /\ ProjectAtRest /\ FilterAtRest /\ TiledIdle /\ DownloadAtRest
NextTiled ==
    \/ TiledStart /\ UNCHANGED <<downloadVars, queryVars, projVars, filterVars>>
    \/ TileSkip /\ UNCHANGED <<downloadVars, queryVars, projVars, filterVars>>
    \/ TileQuery /\ UNCHANGED <<downloadVars, queryVars, projVars, filterVars>>
    \/ TileRespond
          /\ UNCHANGED <<downloadVars, queryVars, projVars, filterVars>>
    \/ TiledConcat
          /\ UNCHANGED <<downloadVars, queryVars, projVars, filterVars>>
SpecTiled == InitTiled /\ [][NextTiled]_vars

InitDownload ==
    NetIdle /\ QueryAtRest /\ ProjectAtRest /\ FilterAtRest /\ TiledAtRest /\ DownloadIdle
NextDownload ==
    \/ DownloadStart /\ UNCHANGED <<netVars, queryVars, projVars, filterVars, tiledVars>>
    \/ DownloadRow /\ UNCHANGED <<netVars, queryVars, projVars, filterVars, tiledVars>>
    \/ DownloadReturn /\ UNCHANGED <<netVars, queryVars, projVars, filterVars, tiledVars>>
SpecDownload == InitDownload /\ [][NextDownload]_vars


(***************************************************************************)
(* Properties of the tiled run (SpecTiled).                                *)
(***************************************************************************)
PointOf(row) == <<row.x, row.y>>

\* the loop of the tiled run has gone through every tile
LoopDone == t_pc \in {"returned", "raised"} /\ t_i > Len(bboxes)

\* C1: every record of the collection tiled_mapillary_data_to_gdf returns has
\* its point strictly inside the region polygon; a record whose point is on
\* the boundary of the polygon or outside it is never in the merged result.
C1_ResultStrictlyInside ==
    t_pc = "returned" =>
        \A k \in 1 .. Len(as_gdf) : contains(input_polygon, PointOf(as_gdf[k]))

\* C2: the query for a tile with bounds (west, south, east, north) is called
\* with minLon = west, minLat = south, maxLon = east, maxLat = north.
C2_QueryBboxIsTileBbox ==
    \A k \in 1 .. Len(calls) :
        LET b == bboxes[calls[k].tile]
            a == calls[k].args
        IN  /\ a.minLon = Num(b[1]) /\ a.minLat = Num(b[2])
            /\ a.maxLon = Num(b[3]) /\ a.maxLat = Num(b[4])

\* the indices, in grid order, of the first n tiles that are not disjoint from
\* the region
RECURSIVE NotDisjointUpTo(_)
NotDisjointUpTo(n) ==
    IF n = 0 THEN <<>>
    ELSE IF disjoint(bboxes[n], input_polygon) THEN NotDisjointUpTo(n - 1)
    ELSE Append(NotDisjointUpTo(n - 1), n)

\* the tiles the loop has reached a decision for: the tile of the loop counts
\* once its query has been called
TilesDecided == IF t_pc \in {"wait", "raised"} /\ t_i <= Len(bboxes) THEN t_i ELSE t_i - 1

\* C3: the queries issued are, in order, exactly the tiles of the grid whose
\* rectangle is not disjoint from the region: a disjoint tile is never queried,
\* every other tile the loop has passed is queried exactly once, and no request
\* is issued while another one is unanswered.  When no query fails the loop
\* passes every tile, and the queries are the whole subsequence.
C3_QueriesAreNotDisjointTilesInOrder ==
    /\ t_pc \in {"loop", "wait", "returned", "raised"} =>
          [k \in 1 .. Len(calls) |-> calls[k].tile] = NotDisjointUpTo(TilesDecided)
    /\ LoopDone =>
          [k \in 1 .. Len(calls) |-> calls[k].tile] = NotDisjointUpTo(Len(bboxes))
    /\ Len(inflight) <= 1
    /\ Len(http) <= Len(calls)
    /\ (inflight # <<>>) <=> (t_pc = "wait")

\* C3 witness: a run over a grid of four tiles ended with three queries, in
\* grid order, the third tile having been skipped; all of them were answered.
C3_Witness ==
    /\ t_pc = "returned" /\ Len(bboxes) = 4
    /\ [k \in 1 .. Len(calls) |-> calls[k].tile] = <<1, 2, 4>>
    /\ Len(http) = 3 /\ Len(resps) = 3

\* C4: the run returns an empty collection, and raises no error, when no tile
\* contributes a per-tile collection (every tile is disjoint from the region or
\* every queried tile returns zero records).
C4_EmptyResultWhenNothingCollected ==
    (LoopDone /\ gdfs_list = <<>>) => (t_pc = "returned" /\ as_gdf = <<>>)


(***************************************************************************)
(* Properties of the query client (SpecQuery).                             *)
(***************************************************************************)
C5_IsNumber(c) == c.t \in {"num", "float"}

\* the invalid inputs: a coordinate that is no number, a longitude outside
\* [-180, 180], a latitude outside [-90, 90], minLon >= maxLon,
\* minLat >= maxLat, a limit that is no positive integer, an empty token
C5_Invalid(a) ==
    \/ \E c \in {a.minLon, a.minLat, a.maxLon, a.maxLat} : ~C5_IsNumber(c)
    \/ \E c \in {a.minLon, a.maxLon} : C5_IsNumber(c) /\ (c.v < -180 \/ c.v > 180)
    \/ \E c \in {a.minLat, a.maxLat} : C5_IsNumber(c) /\ (c.v < -90 \/ c.v > 90)
    \/ C5_IsNumber(a.minLon) /\ C5_IsNumber(a.maxLon) /\ a.minLon.v >= a.maxLon.v
    \/ C5_IsNumber(a.minLat) /\ C5_IsNumber(a.maxLat) /\ a.minLat.v >= a.maxLat.v
    \/ ~(a.limit.t = "num" /\ a.limit.v >= 1)
    \/ a.token \in {"", NoneVal}

\* C5: a call with an invalid input fails with ValueError and no HTTP request
\* is ever issued for it; a request is issued only when every check passes.
C5_NoRequestOnInvalidInput ==
    q_pc \in {"wait", "done"} =>
        /\ C5_Invalid(q) =>
              (q_pc = "done" /\ q_out.outcome = "ValueError" /\ http = <<>>)
        /\ http # <<>> => ~C5_Invalid(q)

\* C5 witness: a call whose only invalid input is the empty token has failed
\* with ValueError and issued no request.
C5_Witness ==
    /\ q_pc = "done" /\ q.token = ""
    /\ q.minLon = Num(-100) /\ q.maxLon = Num(50) /\ q.minLat = Num(0)
    /\ q.maxLat = Num(50) /\ q.limit = Num(1) /\ q.fields = "default_fields"
    /\ q_out.outcome = "ValueError" /\ http = <<>>

\* the number of records of a response (none without the "data" key)
C7_Count(body) == IF body.hasData THEN Len(body.data) ELSE 0

WellFormed(rec) == rec.g = "point"

\* C6: for a response with at least one valid record, the projector returns
\* exactly the valid records: a record whose geometry is absent or malformed is
\* dropped without failing the batch (no filtering polygon given).
C6_MalformedRecordsDropped ==
    (p_pc = "done" /\ p_poly = {}
        /\ \E k \in 1 .. Len(p_data.data) : WellFormed(p_data.data[k]))
    => p_out = SelectSeq(p_data.data, WellFormed)

\* s is t with some elements left out, the order kept
RECURSIVE IsSubSeq(_, _)
IsSubSeq(s, t) ==
    IF s = <<>> THEN TRUE
    ELSE IF t = <<>> THEN FALSE
    ELSE IF Head(s) = Head(t) THEN IsSubSeq(Tail(s), Tail(t))
    ELSE IsSubSeq(s, Tail(t))

\* C10: the filter returns a "data" list that is a subset of the input records,
\* every record of which has its point strictly inside the polygon (boundary
\* points excluded), and filtering its output again returns the same records.
C10_FilterSubsetStrictIdempotent ==
    /\ f_pc \in {"once", "twice"} =>
          /\ IsSubSeq(f_out.data, f_data.data)
          /\ \A k \in 1 .. Len(f_out.data) :
                /\ WellFormed(f_out.data[k])
                /\ contains(f_poly, PointOf(f_out.data[k]))
    /\ f_pc = "twice" => f_out2 = f_out

\* C10 witness: of three records, one inside the polygon, one on its boundary
\* and one malformed, the filter kept the one inside, and kept it again.
C10_Witness ==
    /\ f_pc = "twice" /\ f_poly = PolyOne
    /\ f_data.data = <<Rec(2, "point", -30, 20), Rec(1, "point", -45, 20), Rec(4, "absent", 0, 0)>>
    /\ f_out.data = <<Rec(1, "point", -45, 20)>>
    /\ f_out2 = f_out

(***************************************************************************)
(* More properties of the tiled run (SpecTiled).                           *)
(***************************************************************************)
\* the exception of the query client for a failed request
C8_ErrorOf(kind) ==
    IF kind = "neterr" THEN "RequestException"
    ELSE IF kind = "nonobject" THEN "AttributeError"
    ELSE "ValueError"

\* the run has ended with the exception err and returned nothing
C8_Aborted(err) == t_pc = "raised" /\ t_err = err /\ as_gdf = <<>>

\* a query that failed is the last one, and the run has ended with its error
C8_FailedQueryIsLast ==
    /\ \A k \in 1 .. Len(calls) :
          BeforeRequest(calls[k].args) # "ok" =>
              (k = Len(calls) /\ C8_Aborted(BeforeRequest(calls[k].args)))
    /\ \A k \in 1 .. Len(resps) :
          resps[k].kind # "ok" =>
              (k = Len(resps) /\ Len(http) = k /\ C8_Aborted(C8_ErrorOf(resps[k].kind)))

\* C8: a failed tile query aborts the run: the error propagates to the caller,
\* no query is issued for any later tile, and no merged collection is returned
\* (once the run has raised, nothing more happens).
C8_FailedQueryAborts == [](C8_FailedQueryIsLast) /\ [][t_pc # "raised"]_vars

\* C8 witness: the second query of a run failed in the network; the run has
\* raised, and a later tile that is not disjoint from the region has no query.
C8_Witness ==
    /\ t_pc = "raised" /\ Len(resps) = 2 /\ resps[1].kind = "ok"
    /\ resps[2].kind = "neterr" /\ t_err = "RequestException"
    /\ Len(calls) = 2
    /\ \E k \in (t_i + 1) .. Len(bboxes) : ~disjoint(bboxes[k], input_polygon)

Count(seq, id) == Cardinality({k \in 1 .. Len(seq) : seq[k].id = id})

\* every record the queries of the run returned, in order
RECURSIVE AllReturned(_)
AllReturned(rs) ==
    IF rs = <<>> THEN <<>> ELSE AllReturned(SubSeq(rs, 1, Len(rs) - 1)) \o rs[Len(rs)].body.data

\* C9 as stated: the returned collection holds no record (id) twice.
C9_NoDuplicateIds ==
    t_pc = "returned" =>
        \A i \in 1 .. Len(as_gdf), j \in 1 .. Len(as_gdf) :
            as_gdf[i].id = as_gdf[j].id => i = j

\* C9 amended: the returned collection is not deduplicated across tiles: a
\* record is in it at most as often as the tile queries returned it, so a
\* record returned by the queries of two tiles can be in it twice, and one
\* returned once is in it at most once.
C9_AtMostAsOftenAsReturned ==
    t_pc = "returned" =>
        \A r \in TileRecords : Count(as_gdf, r.id) <= Count(AllReturned(resps), r.id)

\* C9 witness: the queries of two tiles each returned the record with id 1,
\* and the returned collection holds it twice.
C9_Witness ==
    /\ t_pc = "returned"
    /\ Len(resps) >= 2
    /\ Count(resps[1].body.data, 1) = 1 /\ Count(resps[2].body.data, 1) = 1
    /\ Count(as_gdf, 1) = 2

(***************************************************************************)
(* Properties of the download batch (SpecDownload).                        *)
(***************************************************************************)
\* the rows of the log that count as failed: the URL was empty (no download
\* tried) or the download raised
C11_FailedRows == {k \in 1 .. Len(d_log) : ~d_log[k].tried \/ d_log[k].raised}

\* C11: the batch is never aborted by a per-item failure.  For a table that is
\* not empty and has the id and URL columns, the only exception is the one of
\* creating the output folder, before any row; every row is processed, in
\* order, whatever happened to the rows before it; and the summary returned has
\* success + failed = number of rows and len(errors) = failed, a row being
\* failed exactly when its URL is empty or its download raised.
C11_BatchNeverAborted ==
    (gdf.rows # <<>> /\ gdf.hasId /\ gdf.hasUrl) =>
        /\ d_pc = "raised" => (d_err = "OSError" /\ d_log = <<>>)
        /\ \A k \in 1 .. Len(d_log) :
              /\ d_log[k].id = gdf.rows[k].id
              /\ d_log[k].tried <=> ~EmptyUrl(gdf.rows[k].url)
        /\ d_pc = "returned" =>
              /\ Len(d_log) = Len(gdf.rows)
              /\ d_ret.success + d_ret.failed = Len(gdf.rows)
              /\ Len(d_ret.errors) = d_ret.failed
              /\ d_ret.failed = Cardinality(C11_FailedRows)
              /\ [k \in 1 .. Len(d_ret.errors) |-> d_ret.errors[k].id]
                    = SelectSeq([k \in 1 .. Len(d_log) |-> k],
                                LAMBDA k : k \in C11_FailedRows)

\* C11 witness: of three rows the first download raised, the second row had an
\* empty URL and the third was downloaded; the summary counts 1 and 2.
C11_Witness ==
    /\ d_pc = "returned" /\ Len(gdf.rows) = 3
    /\ d_log[1].raised /\ ~d_log[2].tried /\ d_log[3].tried /\ ~d_log[3].raised
    /\ d_ret.success = 1 /\ d_ret.failed = 2 /\ Len(d_ret.errors) = 2

=============================================================================
